---------------------------- MODULE Spec2Model ----------------------------
(***************************************************************************)
(* The fraud-detection pipeline of src/App.tsx with its two services       *)
(* (the Gemini scorer and the Supabase persistence gateway).               *)
(*                                                                         *)
(* Numbers: amounts are the integers parseFloat yields on its digit        *)
(* strings.  An average or a deviation ratio is the exact fraction [n, d]  *)
(* in lowest terms, except in DoubleSpec, where the two divisions are      *)
(* those of IEEE 754 doubles and round as the engine's do.  A string is    *)
(* the sequence of its characters where the code looks inside it (the      *)
(* amount), and a TLA+ string where the code only tests and compares it    *)
(* (BA, actCode).  The objects actCodeStats and baStats are maps from the  *)
(* keys seen so far.                                                       *)
(***************************************************************************)
EXTENDS Integers, Sequences, FiniteSets, TLC

VARIABLES
  rawData,          \* useState<RawTransaction[]>           App.tsx:10
  processedData,    \* useState<ProcessedTransaction[]>     App.tsx:11
  isProcessing,     \* App.tsx:12
  isAnalyzing,      \* App.tsx:13
  isSaving,         \* App.tsx:14
  saveStatus,       \* 'idle' | 'success' | 'error'         App.tsx:15
  error,            \* string | null                        App.tsx:16
  analysisResults,  \* useState<AIAnalysisResult[]>         App.tsx:17
  pendingParse,     \* Papa.parse calls whose callback has not run yet
  pendingAnalysis,  \* analyzeFraudWithGemini calls runAIAnalysis awaits
  pendingSave,      \* saveFraudAnalysisResults calls handleSaveToDatabase awaits
  env,              \* process.env: which credentials are configured
  run,              \* history of the latest analysis run (not program state)
  call              \* the pure function applied by the function specifications

vars == <<rawData, processedData, isProcessing, isAnalyzing, isSaving,
          saveStatus, error, analysisResults, pendingParse, pendingAnalysis,
          pendingSave, env, run, call>>

---------------------------------------------------------------------------
(* Exact fractions.                                                        *)

Abs(x) == IF x < 0 THEN -x ELSE x

RECURSIVE Gcd(_, _)
Gcd(a, b) == IF b = 0 THEN a ELSE Gcd(b, a % b)

\* n / d for d # 0, in lowest terms with a positive denominator.
Frac(n, d) ==
  LET g == Gcd(Abs(n), Abs(d))
      s == IF d < 0 THEN -1 ELSE 1
  IN [n |-> (s * n) \div g, d |-> (s * d) \div g]

FracGt(a, b) == a.n * b.d > b.n * a.d

Zero == Frac(0, 1)

---------------------------------------------------------------------------
(* The amount column: row.amount.replace(/,/g, '') and parseFloat.         *)

Digits == {"0", "1", "2", "3", "4", "5", "6", "7", "8", "9"}

DigitValue(c) ==
  CASE c = "0" -> 0 [] c = "1" -> 1 [] c = "2" -> 2 [] c = "3" -> 3
    [] c = "4" -> 4 [] c = "5" -> 5 [] c = "6" -> 6 [] c = "7" -> 7
    [] c = "8" -> 8 [] c = "9" -> 9

\* str.replace(/,/g, '')
StripCommas(str) == SelectSeq(str, LAMBDA c : c # ",")

\* The value of the decimal digits str[1..k].
RECURSIVE DecimalValue(_, _)
DecimalValue(str, k) ==
  IF k = 0 THEN 0 ELSE 10 * DecimalValue(str, k - 1) + DigitValue(str[k])

\* parseFloat on a string of digits, '-' and other characters: an optional
\* sign, then the longest run of digits; NaN when that run is empty.
parseFloat(str) ==
  LET neg  == Len(str) > 0 /\ str[1] = "-"
      body == IF neg THEN Tail(str) ELSE str
      stop == {k \in 1..Len(body) : body[k] \notin Digits}
      len  == IF stop = {} THEN Len(body)
              ELSE (CHOOSE k \in stop : \A j \in stop : k <= j) - 1
      v    == DecimalValue(body, len)
  IN [nan |-> len = 0, value |-> IF neg THEN -v ELSE v]

\* const amountStr = row.amount ? row.amount.replace(/,/g, '') : "0";
\* const amount = parseFloat(amountStr) || 0;
amountOf(row) ==
  LET amountStr == IF row.amount # <<>> THEN StripCommas(row.amount) ELSE <<"0">>
      parsed    == parseFloat(amountStr)
  IN IF parsed.nan \/ parsed.value = 0 THEN 0 ELSE parsed.value

\* if (!actCode || !ba) return;
skipped(row) == row.actCode = "" \/ row.BA = ""

---------------------------------------------------------------------------
(* processFeatures.                                                        *)

\* const actCodeStats = {}; const baStats = {}; and forEach's row counter.
NoStats == [actCodeStats |-> << >>, baStats |-> << >>, next |-> 1]

\* The map m with m[key] set to value (obj[key] = value).
Put(m, key, value) ==
  IF key \in DOMAIN m THEN [m EXCEPT ![key] = value] ELSE m @@ (key :> value)

\* FirstPassRow with a skip test that looks at actCode only: a row without
\* BA is counted.
FirstPassRowKeepingRowsWithoutBA(data, stats) ==
  LET row == data[stats.next]
  IN IF row.actCode = "" THEN [stats EXCEPT !.next = @ + 1]
     ELSE
       LET amount == amountOf(row)
           act    == stats.actCodeStats
           old    == IF row.actCode \in DOMAIN act THEN act[row.actCode]
                     ELSE [totalAmount |-> 0, count |-> 0, average |-> Zero]
           new    == [old EXCEPT !.totalAmount = @ + amount, !.count = @ + 1]
           ba     == stats.baStats
           seen   == IF row.BA \in DOMAIN ba THEN ba[row.BA] ELSE 0
       IN [actCodeStats |-> Put(act, row.actCode, new),
           baStats      |-> Put(ba, row.BA, seen + 1),
           next         |-> stats.next + 1]

\* The body of the first data.forEach for the row data[stats.next].
FirstPassRow(data, stats) ==
  LET row == data[stats.next]
  IN IF skipped(row) THEN [stats EXCEPT !.next = @ + 1]
     ELSE
       LET amount == amountOf(row)
           act    == stats.actCodeStats
           old    == IF row.actCode \in DOMAIN act THEN act[row.actCode]
                     ELSE [totalAmount |-> 0, count |-> 0, average |-> Zero]
           new    == [old EXCEPT !.totalAmount = @ + amount, !.count = @ + 1]
           ba     == stats.baStats
           seen   == IF row.BA \in DOMAIN ba THEN ba[row.BA] ELSE 0
       IN [actCodeStats |-> Put(act, row.actCode, new),
           baStats      |-> Put(ba, row.BA, seen + 1),
           next         |-> stats.next + 1]

\* The first data.forEach from row stats.next to row hi, in order (the
\* rows are halved so that the evaluation nests log(hi) deep).
RECURSIVE FirstPass(_, _, _)
FirstPass(data, stats, hi) ==
  IF stats.next > hi THEN stats
  ELSE IF stats.next = hi THEN FirstPassRow(data, stats)
  ELSE FirstPass(data, FirstPass(data, stats, (stats.next + hi) \div 2), hi)

\* Averages with the division truncated to an integer.
AveragesTruncated(actCodeStats) ==
  [c \in DOMAIN actCodeStats |->
     [actCodeStats[c] EXCEPT !.average =
        Frac(actCodeStats[c].totalAmount \div actCodeStats[c].count, 1)]]

\* stat.average = stat.totalAmount / stat.count, for every key.
Averages(actCodeStats) ==
  [c \in DOMAIN actCodeStats |->
     [actCodeStats[c] EXCEPT !.average = Frac(actCodeStats[c].totalAmount,
                                              actCodeStats[c].count)]]

DeviationThreshold == 3
HighVolumeDeviationThreshold == 2
HighVolumeThreshold == 100

\* isSuspicious with >= for > in the first clause.
isSuspiciousFromThreshold(deviation, baCount) ==
  \/ ~FracGt(Frac(DeviationThreshold, 1), deviation)
  \/ /\ baCount > HighVolumeThreshold
     /\ FracGt(deviation, Frac(HighVolumeDeviationThreshold, 1))

\* deviation > 3.0 || (baStats[row.BA] > 100 && deviation > 2.0)
isSuspicious(deviation, baCount) ==
  \/ FracGt(deviation, Frac(DeviationThreshold, 1))
  \/ /\ baCount > HighVolumeThreshold
     /\ FracGt(deviation, Frac(HighVolumeDeviationThreshold, 1))

\* const avg = actCodeStats[row.actCode]?.average || 0;
averageOf(actCodeStats, actCode) ==
  IF actCode \in DOMAIN actCodeStats THEN actCodeStats[actCode].average ELSE Zero

\* const deviation = avg === 0 ? 0 : amount / avg;
deviationOf(amount, avg) ==
  IF avg.n = 0 THEN Zero ELSE Frac(amount * avg.d, avg.n)

\* The record the second data.forEach pushes for data[index + 1].
ProcessedRow(row, index, stats) ==
  LET amount    == amountOf(row)
      avg       == averageOf(stats.actCodeStats, row.actCode)
      deviation == deviationOf(amount, avg)
      baCount   == IF row.BA \in DOMAIN stats.baStats
                   THEN stats.baStats[row.BA] ELSE 0
  IN [id                    |-> index,
      BA                    |-> row.BA,
      monthly               |-> row.monthly,
      actCode               |-> row.actCode,
      amount                |-> amount,
      baTransactionCount    |-> baCount,
      actCodeAvgAmount      |-> avg,
      deviationFromAvg      |-> deviation,
      isSuspiciousCandidate |-> isSuspicious(deviation, baCount)]

\* SecondPass with the survivors renumbered: id is the position among the
\* records pushed so far.
SecondPassRenumbered(data, stats) ==
  LET kept == SelectSeq([i \in 1..Len(data) |-> i] \o << >>,
                        LAMBDA i : ~skipped(data[i]))
  IN [k \in 1..Len(kept) |-> ProcessedRow(data[kept[k]], k - 1, stats)]
     \o << >>

\* The second data.forEach: the rows that are not skipped, in order, each
\* with its zero-based index in data.
SecondPass(data, stats) ==
  LET kept == SelectSeq([i \in 1..Len(data) |-> i] \o << >>,
                        LAMBDA i : ~skipped(data[i]))
  IN [k \in 1..Len(kept) |-> ProcessedRow(data[kept[k]], kept[k] - 1, stats)]
     \o << >>

\* aggregates with actCodeStats and baStats kept from one call of
\* processFeatures to the next (declared outside the function).
aggregatesKeptBetweenCalls(data) ==
  LET start == IF call.pc = "processed"
                 THEN [actCodeStats |-> call.stats.actCodeStats,
                       baStats |-> call.stats.baStats, next |-> 1]
               ELSE NoStats
      first == FirstPass(data, start, Len(data))
  IN [actCodeStats |-> Averages(first.actCodeStats), baStats |-> first.baStats]

\* actCodeStats and baStats when the second pass starts.
aggregates(data) ==
  LET first == FirstPass(data, NoStats, Len(data))
  IN [actCodeStats |-> Averages(first.actCodeStats), baStats |-> first.baStats]

\* The array processFeatures hands to setProcessedData.
processFeatures(data) == SecondPass(data, aggregates(data))

---------------------------------------------------------------------------
(* Array.prototype.sort, .filter, .slice and the three memoised views.     *)

\* s.sort(cmp) for a comparator that is negative exactly when
\* Before(a, b): the sort is stable, so an element is preceded by the
\* elements that go before it and by the earlier elements that tie with it.
SortStable(s, Before(_, _)) ==
  LET n    == Len(s)
      rank == [i \in 1..n |->
                 Cardinality({j \in 1..n :
                    \/ Before(s[j], s[i])
                    \/ (~Before(s[i], s[j]) /\ j < i)})] \o << >>
      at   == [i \in 1..n |-> CHOOSE r \in 1..n : rank[r] = i - 1] \o << >>
  IN [i \in 1..n |-> s[at[i]]] \o << >>

Min(a, b) == IF a < b THEN a ELSE b

MaxCandidates == 30

\* candidates without the sort: the first 30 flagged records.
candidatesUnsorted(transactions) ==
  LET flagged == SelectSeq(transactions, LAMBDA t : t.isSuspiciousCandidate)
  IN SubSeq(flagged, 1, Min(MaxCandidates, Len(flagged)))

\* transactions.filter(t => t.isSuspiciousCandidate)
\*   .sort((a, b) => b.deviationFromAvg - a.deviationFromAvg).slice(0, 30)
candidates(transactions) ==
  LET flagged == SelectSeq(transactions, LAMBDA t : t.isSuspiciousCandidate)
      sorted  == SortStable(flagged,
                   LAMBDA a, b : FracGt(a.deviationFromAvg, b.deviationFromAvg))
  IN SubSeq(sorted, 1, Min(MaxCandidates, Len(sorted)))

\* analysisResults.sort((a, b) => b.fraudScore - a.fraudScore), in place.
sortedResults(results) ==
  SortStable(results, LAMBDA a, b : a.fraudScore > b.fraudScore)

\* processedData.sort((a, b) => b.amount - a.amount), in place (scatterData).
sortedByAmount(processed) ==
  SortStable(processed, LAMBDA a, b : a.amount > b.amount)

\* processedData.find(p => p.id === res.id): the first match, or none.
Matches(processed, id) == {k \in 1..Len(processed) : processed[k].id = id}

find(processed, id) ==
  processed[CHOOSE k \in Matches(processed, id) :
              \A j \in Matches(processed, id) : k <= j]

\* topRiskyTransactions without the sort: the results in the order given.
topRiskyTransactionsUnsorted(results, processed) ==
  IF Len(results) = 0 THEN << >>
  ELSE
    LET found == SelectSeq(results, LAMBDA res : Matches(processed, res.id) # {})
    IN [k \in 1..Len(found) |-> found[k] @@ find(processed, found[k].id)] \o << >>

\* The useMemo of topRiskyTransactions: { ...original, ...res } for every
\* result that finds its record, in the order of the sorted results.
topRiskyTransactions(results, processed) ==
  IF Len(results) = 0 THEN << >>
  ELSE
    LET sorted == sortedResults(results)
        found  == SelectSeq(sorted, LAMBDA res : Matches(processed, res.id) # {})
    IN [k \in 1..Len(found) |-> found[k] @@ find(processed, found[k].id)] \o << >>

---------------------------------------------------------------------------
(* The services.                                                           *)

\* recordsToInsert of saveFraudAnalysisResults.
recordsToInsert(transactions) ==
  [k \in 1..Len(transactions) |->
     [ba              |-> transactions[k].BA,
      monthly         |-> transactions[k].monthly,
      act_code        |-> transactions[k].actCode,
      amount          |-> transactions[k].amount,
      fraud_score     |-> transactions[k].fraudScore,
      deviation_ratio |-> transactions[k].deviationFromAvg,
      ai_reason       |-> transactions[k].reason,
      is_flagged      |-> TRUE]] \o << >>

\* analyzeFraudWithGemini up to its first await: the promise it hands to
\* runAIAnalysis.  "fulfilled" and "rejected" promises are settled without
\* any request; a "pending" one waits for ai.models.generateContent.
analyzeFraudWithGemini(transactions, environment) ==
  LET selected == candidates(transactions)
  IN IF Len(selected) = 0
       THEN [status |-> "fulfilled", value |-> << >>, request |-> << >>]
     ELSE IF ~environment.API_KEY
       THEN [status |-> "rejected", value |-> << >>, request |-> << >>]
     ELSE [status |-> "pending", value |-> << >>, request |-> selected]

\* saveFraudAnalysisResults up to its first await.
saveFraudAnalysisResults(transactions, environment) ==
  IF ~environment.supabase
    THEN [status |-> "rejected", request |-> << >>]
  ELSE [status |-> "pending", request |-> recordsToInsert(transactions)]

---------------------------------------------------------------------------
(* The component: its state, handlers and renders.                         *)

NoError          == "null"
ErrNoData        == "no data in CSV"              \* App.tsx:38
ErrParse         == "error parsing CSV"           \* App.tsx:43
ErrNoSuspicious  == "nothing suspicious or no reply"   \* App.tsx:133
ErrGemini        == "Gemini API error"            \* App.tsx:137
ErrSupabase      == "Supabase save error"         \* App.tsx:153

\* What a render leaves in the two arrays the memoised views sort in place.
renderedProcessed(processed) == sortedByAmount(processed)
renderedResults(results) ==
  IF Len(results) = 0 THEN results ELSE sortedResults(results)

\* topRiskyTransactions as the last render computed it.
TopRisky == topRiskyTransactions(analysisResults, processedData)

NoRun == [state |-> "none", flagged |-> 0, candidates |-> 0, scorerCalled |-> FALSE]
NoCall == [pc |-> "none"]

\* A promise that settled without a request: its continuation is a
\* microtask, which runs before any other event is handled.
SettledAnalysis == Len(pendingAnalysis) > 0 /\ pendingAnalysis[1].status # "pending"
SettledSave     == Len(pendingSave) > 0 /\ pendingSave[1].status # "pending"
MicrotaskQueued == SettledAnalysis \/ SettledSave

Supersede(pending) == [k \in 1..Len(pending) |->
                         [pending[k] EXCEPT !.superseded = TRUE]] \o << >>

Remove(seq, i) == SubSeq(seq, 1, i - 1) \o SubSeq(seq, i + 1, Len(seq))

---------------------------------------------------------------------------
(* Inputs: the files the user uploads and the answers of the scorer.       *)

MaxFileRows     == 2    \* rows of an uploaded file
MaxPendingParse == 1    \* uploads whose parse has not completed
MaxResults      == 2    \* results of an ordinary answer to the component
MaxMerged       == 3    \* results of an ordinary answer to the merger alone

Row(ba, actCode, amount) ==
  [BA |-> ba, monthly |-> "2024-01", actCode |-> actCode, amount |-> amount]

SeqsUpTo(S, n) == UNION {[1..k -> S] : k \in 0..n}

Repeat(x, n) == [k \in 1..n |-> x] \o << >>

\* The rows of the uploaded files: an amount, a negative amount (two such
\* rows make the first a candidate) and a row without BA.
FileRows == {Row("A", "X", <<"2">>), Row("A", "X", <<"-", "1">>),
             Row("", "X", <<"2">>)}

\* What Papa.parse makes of a file: its rows, or a read error.
Files == [kind : {"rows"}, data : SeqsUpTo(FileRows, MaxFileRows)]
           \cup {[kind |-> "unreadable", data |-> << >>]}

\* fraudScore, in tenths.
Scores == {3, 8}

Result(id, score) == [id |-> id, fraudScore |-> score, reason |-> "r"]

\* The scorer answers with any ids (known or not) in any order, and with
\* as many results as it likes: at most max, or one more than the
\* candidates it can have been sent.
Answers(ids, max) ==
  LET results == {Result(id, score) : id \in ids, score \in Scores}
  IN SeqsUpTo(results, max)
       \cup {Repeat(r, MaxCandidates + 1) : r \in results}

---------------------------------------------------------------------------
(* The component's handlers.                                               *)

Init ==
  /\ rawData = << >>
  /\ processedData = << >>
  /\ isProcessing = FALSE
  /\ isAnalyzing = FALSE
  /\ isSaving = FALSE
  /\ saveStatus = "idle"
  /\ error = NoError
  /\ analysisResults = << >>
  /\ pendingParse = << >>
  /\ pendingAnalysis = << >>
  /\ pendingSave = << >>
  /\ env \in [API_KEY : BOOLEAN, supabase : BOOLEAN]
  /\ run = NoRun
  /\ call = NoCall

\* handleFileUpload up to Papa.parse, which reads the file asynchronously.
HandleFileUpload(file) ==
  /\ ~MicrotaskQueued
  /\ Len(pendingParse) < MaxPendingParse
  /\ isProcessing' = TRUE
  /\ error' = NoError
  /\ processedData' = renderedProcessed(<< >>)
  /\ analysisResults' = renderedResults(<< >>)
  /\ saveStatus' = "idle"
  /\ pendingParse' = Append(pendingParse, file)
  /\ pendingAnalysis' = Supersede(pendingAnalysis)
  /\ pendingSave' = Supersede(pendingSave)
  /\ UNCHANGED <<rawData, isAnalyzing, isSaving, env, run, call>>

\* Papa.parse's complete callback with rows: setRawData and processFeatures.
ParseCompleteRows(i) ==
  /\ ~MicrotaskQueued
  /\ pendingParse[i].kind = "rows"
  /\ Len(pendingParse[i].data) > 0
  /\ rawData' = pendingParse[i].data
  /\ processedData' = renderedProcessed(processFeatures(pendingParse[i].data))
  /\ isProcessing' = FALSE
  /\ pendingParse' = Remove(pendingParse, i)
  /\ UNCHANGED <<isAnalyzing, isSaving, saveStatus, error, analysisResults,
                 pendingAnalysis, pendingSave, env, run, call>>

\* Papa.parse's complete callback without rows.
ParseCompleteEmpty(i) ==
  /\ ~MicrotaskQueued
  /\ pendingParse[i].kind = "rows"
  /\ Len(pendingParse[i].data) = 0
  /\ error' = ErrNoData
  /\ isProcessing' = FALSE
  /\ pendingParse' = Remove(pendingParse, i)
  /\ UNCHANGED <<rawData, processedData, isAnalyzing, isSaving, saveStatus,
                 analysisResults, pendingAnalysis, pendingSave, env, run, call>>

\* ParseError without setIsProcessing(false).
ParseErrorStayingBusy(i) ==
  /\ ~MicrotaskQueued
  /\ pendingParse[i].kind = "unreadable"
  /\ error' = ErrParse
  /\ pendingParse' = Remove(pendingParse, i)
  /\ UNCHANGED <<rawData, processedData, isProcessing, isAnalyzing, isSaving,
                 saveStatus, analysisResults, pendingAnalysis, pendingSave, env,
                 run, call>>

\* Papa.parse's error callback.
ParseError(i) ==
  /\ ~MicrotaskQueued
  /\ pendingParse[i].kind = "unreadable"
  /\ error' = ErrParse
  /\ isProcessing' = FALSE
  /\ pendingParse' = Remove(pendingParse, i)
  /\ UNCHANGED <<rawData, processedData, isAnalyzing, isSaving, saveStatus,
                 analysisResults, pendingAnalysis, pendingSave, env, run, call>>

\* The button without isAnalyzing in its disabled attribute.
RunEnabledWhileAnalyzing == Len(processedData) > 0

\* The "Run Fraud Detection" button: disabled={processedData.length === 0
\* || isAnalyzing}.
RunEnabled == Len(processedData) > 0 /\ ~isAnalyzing

\* runAIAnalysis up to its await.
RunAIAnalysis ==
  /\ ~MicrotaskQueued
  /\ RunEnabled
  /\ isAnalyzing' = TRUE
  /\ error' = NoError
  /\ saveStatus' = "idle"
  /\ LET promise == analyzeFraudWithGemini(processedData, env)
     IN /\ pendingAnalysis' =
             Append(pendingAnalysis, promise @@ [superseded |-> FALSE])
        /\ run' = [state        |-> "running",
                   flagged      |-> Len(SelectSeq(processedData,
                                      LAMBDA t : t.isSuspiciousCandidate)),
                   candidates   |-> Len(candidates(processedData)),
                   scorerCalled |-> promise.status = "pending"]
  /\ pendingSave' = Supersede(pendingSave)
  /\ UNCHANGED <<rawData, processedData, isProcessing, isSaving,
                 analysisResults, pendingParse, env, call>>

\* runAIAnalysis after its await, the promise fulfilled with results.
AnalysisFulfilled(i, results) ==
  /\ analysisResults' = renderedResults(results)
  /\ error' = IF Len(results) = 0 THEN ErrNoSuspicious ELSE error
  /\ isAnalyzing' = FALSE
  /\ pendingAnalysis' = Remove(pendingAnalysis, i)
  /\ run' = [run EXCEPT !.state = "done"]
  /\ UNCHANGED <<rawData, processedData, isProcessing, isSaving, saveStatus,
                 pendingParse, pendingSave, env, call>>

\* AnalysisRejected with a catch block that only logs: the error slot is
\* left as it was.
AnalysisRejectedSilently(i) ==
  /\ isAnalyzing' = FALSE
  /\ pendingAnalysis' = Remove(pendingAnalysis, i)
  /\ run' = [run EXCEPT !.state = "done"]
  /\ UNCHANGED <<rawData, processedData, isProcessing, isSaving, saveStatus,
                 error, analysisResults, pendingParse, pendingSave, env, call>>

\* runAIAnalysis after its await, the promise rejected.
AnalysisRejected(i) ==
  /\ error' = ErrGemini
  /\ isAnalyzing' = FALSE
  /\ pendingAnalysis' = Remove(pendingAnalysis, i)
  /\ run' = [run EXCEPT !.state = "done"]
  /\ UNCHANGED <<rawData, processedData, isProcessing, isSaving, saveStatus,
                 analysisResults, pendingParse, pendingSave, env, call>>

\* The promise was settled when awaited (no candidates, or no API key).
AnalysisReturns ==
  /\ SettledAnalysis
  /\ IF pendingAnalysis[1].status = "fulfilled"
       THEN AnalysisFulfilled(1, pendingAnalysis[1].value)
       ELSE AnalysisRejected(1)

\* The scorer answers with text that parses to results, or with no text.
ScorerResolves(i, results) ==
  /\ ~MicrotaskQueued
  /\ pendingAnalysis[i].status = "pending"
  /\ AnalysisFulfilled(i, results)

\* The request fails, or the text of the answer does not parse.
ScorerRejects(i) ==
  /\ ~MicrotaskQueued
  /\ pendingAnalysis[i].status = "pending"
  /\ AnalysisRejected(i)

\* The "Save Results" button: rendered when analysisResults.length > 0,
\* disabled={isSaving || saveStatus === 'success'}.
SaveEnabled ==
  Len(analysisResults) > 0 /\ ~isSaving /\ saveStatus # "success"

\* handleSaveToDatabase up to its await.
HandleSaveToDatabase ==
  /\ ~MicrotaskQueued
  /\ SaveEnabled
  /\ Len(TopRisky) > 0
  /\ isSaving' = TRUE
  /\ pendingSave' =
       Append(pendingSave,
              saveFraudAnalysisResults(TopRisky, env) @@ [superseded |-> FALSE])
  /\ UNCHANGED <<rawData, processedData, isProcessing, isAnalyzing, saveStatus,
                 error, analysisResults, pendingParse, pendingAnalysis, env,
                 run, call>>

\* handleSaveToDatabase after its await, the insert done.
SaveFulfilled(i) ==
  /\ saveStatus' = "success"
  /\ isSaving' = FALSE
  /\ pendingSave' = Remove(pendingSave, i)
  /\ UNCHANGED <<rawData, processedData, isProcessing, isAnalyzing, error,
                 analysisResults, pendingParse, pendingAnalysis, env, run, call>>

\* handleSaveToDatabase after its await, the promise rejected.
SaveRejected(i) ==
  /\ error' = ErrSupabase
  /\ saveStatus' = "error"
  /\ isSaving' = FALSE
  /\ pendingSave' = Remove(pendingSave, i)
  /\ UNCHANGED <<rawData, processedData, isProcessing, isAnalyzing,
                 analysisResults, pendingParse, pendingAnalysis, env, run, call>>

\* The promise was rejected when awaited (no Supabase client).
SaveReturns ==
  /\ SettledSave
  /\ SaveRejected(1)

\* supabase...insert(...).select() answers without error.
InsertResolves(i) ==
  /\ ~MicrotaskQueued
  /\ pendingSave[i].status = "pending"
  /\ SaveFulfilled(i)

\* The insert answers with an error, or the request fails.
InsertRejects(i) ==
  /\ ~MicrotaskQueued
  /\ pendingSave[i].status = "pending"
  /\ SaveRejected(i)

ResultIds == 0..MaxFileRows

Next ==
  \/ \E file \in Files : HandleFileUpload(file)
  \/ \E i \in 1..Len(pendingParse) : ParseCompleteRows(i)
  \/ \E i \in 1..Len(pendingParse) : ParseCompleteEmpty(i)
  \/ \E i \in 1..Len(pendingParse) : ParseError(i)
  \/ RunAIAnalysis
  \/ AnalysisReturns
  \/ \E i \in 1..Len(pendingAnalysis), results \in Answers(ResultIds, MaxResults) :
       ScorerResolves(i, results)
  \/ \E i \in 1..Len(pendingAnalysis) : ScorerRejects(i)
  \/ HandleSaveToDatabase
  \/ SaveReturns
  \/ \E i \in 1..Len(pendingSave) : InsertResolves(i)
  \/ \E i \in 1..Len(pendingSave) : InsertRejects(i)

Spec == Init /\ [][Next]_vars

\* The steps the program takes by itself once they are due: the callbacks
\* of Papa.parse, which reads a local file, and the continuations of
\* promises that were settled when awaited.
ParseCallback ==
  \E i \in 1..Len(pendingParse) :
    ParseCompleteRows(i) \/ ParseCompleteEmpty(i) \/ ParseError(i)

Continuation == AnalysisReturns \/ SaveReturns

\* The persistence gateway answers a request.
InsertAnswers ==
  \E i \in 1..Len(pendingSave) : InsertResolves(i) \/ InsertRejects(i)

\* When a callback of Papa.parse, the end of an analysis run and the end
\* of a save can happen (the guards of the steps above), and the steps
\* themselves as seen on the queues of calls.
ParseDue    == Len(pendingParse) > 0 /\ ~MicrotaskQueued
AnalysisDue == Len(pendingAnalysis) > 0 /\ (SettledAnalysis \/ ~SettledSave)
SaveDue     == Len(pendingSave) > 0 /\ (SettledSave \/ ~SettledAnalysis)

ParseCalledBack == Len(pendingParse') < Len(pendingParse)
AnalysisEnded   == Len(pendingAnalysis') < Len(pendingAnalysis)
SaveEnded       == Len(pendingSave') < Len(pendingSave)

\* Strong fairness of the callbacks of Papa.parse, written with the guard
\* of the step: a callback that is due again and again is run.
ParseFairness == <>[](~ParseDue) \/ []<><<ParseCalledBack>>_vars

\* The component with the event loop running what is due; the scorer and
\* the gateway answer or do not.
LiveSpec == Spec /\ WF_vars(Continuation) /\ ParseFairness

MaxAnswered == 1    \* results of an ordinary answer to the fair component

\* Next with the answers of the scorer that AnsweredSpec draws from.
AnsweredNext ==
  \/ \E file \in Files : HandleFileUpload(file)
  \/ ParseCallback
  \/ RunAIAnalysis
  \/ Continuation
  \/ \E i \in 1..Len(pendingAnalysis), results \in Answers(ResultIds, MaxAnswered) :
       ScorerResolves(i, results)
  \/ \E i \in 1..Len(pendingAnalysis) : ScorerRejects(i)
  \/ HandleSaveToDatabase
  \/ InsertAnswers

\* The component with collaborators that answer every request: the
\* callbacks, the ends of runs and the ends of saves are strongly fair.
AnsweredSpec ==
  /\ Init /\ [][AnsweredNext]_vars
  /\ WF_vars(Continuation)
  /\ ParseFairness
  /\ (<>[](~AnalysisDue) \/ []<><<AnalysisEnded>>_vars)
  /\ (<>[](~SaveDue) \/ []<><<SaveEnded>>_vars)

---------------------------------------------------------------------------
(* The three functions on their own: processFeatures on a raw sequence,    *)
(* then the candidates of its output and the merge of its output with an   *)
(* answer of the scorer.                                                   *)

MaxRows == 3    \* rows that follow the repeated rows of a raw sequence

\* Rows with a missing, a plain, a comma-grouped, a negative and an
\* unparsable amount, in two categories and two business areas, and rows
\* without BA and without actCode.
FreeRows == {Row("A", "Y", << >>),
             Row("A", "Y", <<"8">>),
             Row("A", "Y", <<"-", "4", "a">>),
             Row("A", "X", <<"8">>),
             Row("B", "X", <<"1", ",", "0">>),
             Row("B", "Y", <<"a">>),
             Row("", "Y", <<"8">>),
             Row("A", "", <<"8">>)}

\* Repeated rows in front: rows of amount 0 that bring business area "A"
\* to the high-volume threshold, and rows of amount 9 that bring the
\* number of candidates to the selector's limit.
ZeroRow == Row("A", "X", <<"0">>)
NineRow == Row("A", "X", <<"9">>)

Repeats == {<<0, 0>>,
            <<HighVolumeThreshold - MaxRows, 0>>,
            <<HighVolumeThreshold - MaxRows + 1, 0>>,
            <<HighVolumeThreshold - MaxRows + 1, MaxCandidates>>}

RawInputs ==
  {Repeat(ZeroRow, n[1]) \o Repeat(NineRow, n[2]) \o free :
     n \in Repeats, free \in SeqsUpTo(FreeRows, MaxRows)}

NewCall(data) ==
  [pc |-> "data", data |-> data, stats |-> << >>, processed |-> << >>,
   transactions |-> << >>, selected |-> << >>, results |-> << >>,
   merged |-> << >>]

\* The component as constructed, and never used.
Idle ==
  /\ rawData = << >>
  /\ processedData = << >>
  /\ isProcessing = FALSE
  /\ isAnalyzing = FALSE
  /\ isSaving = FALSE
  /\ saveStatus = "idle"
  /\ error = NoError
  /\ analysisResults = << >>
  /\ pendingParse = << >>
  /\ pendingAnalysis = << >>
  /\ pendingSave = << >>
  /\ env = [API_KEY |-> TRUE, supabase |-> TRUE]
  /\ run = NoRun

FnInit == Idle /\ \E data \in RawInputs : call = NewCall(data)

MergeInit ==
  Idle /\ \E data \in SeqsUpTo(FileRows, MaxFileRows) : call = NewCall(data)

appVars == <<rawData, processedData, isProcessing, isAnalyzing, isSaving,
             saveStatus, error, analysisResults, pendingParse,
             pendingAnalysis, pendingSave, env, run>>

\* processFeatures(data): its aggregates and the array it builds.
CallProcessFeatures ==
  /\ call.pc = "data"
  /\ call' = [call EXCEPT !.pc = "processed",
                          !.stats = aggregates(call.data),
                          !.processed = processFeatures(call.data)]
  /\ UNCHANGED appVars

\* The candidates of analyzeFraudWithGemini(transactions), for the array as
\* processFeatures built it and as the scatter view has sorted it.
CallCandidates ==
  /\ call.pc = "processed"
  /\ \E transactions \in {call.processed, sortedByAmount(call.processed)} :
       call' = [call EXCEPT !.pc = "selected",
                            !.transactions = transactions,
                            !.selected = candidates(transactions)]
  /\ UNCHANGED appVars

\* topRiskyTransactions for an answer of the scorer, with processedData as
\* processFeatures built it and as the scatter view has sorted it.
CallTopRisky ==
  /\ call.pc = "processed"
  /\ \E results \in Answers(ResultIds, MaxMerged),
        transactions \in {call.processed, sortedByAmount(call.processed)} :
       call' = [call EXCEPT !.pc = "merged",
                            !.results = results,
                            !.transactions = transactions,
                            !.merged = topRiskyTransactions(results, transactions)]
  /\ UNCHANGED appVars

FnNext == CallProcessFeatures \/ CallCandidates

FnSpec == FnInit /\ [][FnNext]_vars

MergeNext == CallProcessFeatures \/ CallTopRisky

MergeSpec == MergeInit /\ [][MergeNext]_vars

\* processFeatures(data) once more, after the call that built
\* call.processed: the array the second call builds.
CallProcessFeaturesAgain ==
  /\ call.pc = "processed"
  /\ call' = [pc |-> "again", again |-> processFeatures(call.data)] @@ call
  /\ UNCHANGED appVars

RerunNext == CallProcessFeatures \/ CallProcessFeaturesAgain

RerunSpec == FnInit /\ [][RerunNext]_vars

---------------------------------------------------------------------------
(* The ratio as the engine computes it.  A JavaScript number is an IEEE    *)
(* 754 double and a division rounds its quotient to the nearest double,    *)
(* ties to even.  A double above zero is m * 2^e for a mantissa m of 53    *)
(* bits, 2^52 <= m < 2^53, kept in two limbs as hi * Limb + lo; zero has   *)
(* all fields 0.  The amounts of this section are non-negative integers,   *)
(* so that the sums of the first pass are exact.                           *)

Limb == 2^27
Top == 2^25     \* hi of the mantissa 2^52

\* Naturals below 2^54 in two limbs.
NGe(a, b) == a.hi > b.hi \/ (a.hi = b.hi /\ a.lo >= b.lo)

NSub(a, b) ==
  IF a.lo >= b.lo THEN [hi |-> a.hi - b.hi, lo |-> a.lo - b.lo]
  ELSE [hi |-> a.hi - b.hi - 1, lo |-> a.lo + Limb - b.lo]

NDbl(a) == [hi |-> 2 * a.hi + (2 * a.lo) \div Limb, lo |-> (2 * a.lo) % Limb]

NInc(a) ==
  IF a.lo + 1 = Limb THEN [hi |-> a.hi + 1, lo |-> 0]
  ELSE [hi |-> a.hi, lo |-> a.lo + 1]

DZero == [hi |-> 0, lo |-> 0, e |-> 0]

RECURSIVE Log2(_)
Log2(n) == IF n < 2 THEN 0 ELSE 1 + Log2(n \div 2)

\* The double of an integer 0 <= n < 2^26.
DFromInt(n) ==
  IF n = 0 THEN DZero
  ELSE [hi |-> n * 2^(25 - Log2(n)), lo |-> 0, e |-> Log2(n) - 52]

\* k more bits of the quotient by b: acc.q the bits so far, acc.r the
\* remainder, which is below b.
RECURSIVE QuotientBits(_, _, _)
QuotientBits(acc, b, k) ==
  IF k = 0 THEN acc
  ELSE LET r2 == NDbl(acc.r)
           q2 == NDbl(acc.q)
       IN IF NGe(r2, b)
            THEN QuotientBits([q |-> NInc(q2), r |-> NSub(r2, b)], b, k - 1)
          ELSE QuotientBits([q |-> q2, r |-> r2], b, k - 1)

\* a / b for doubles a >= 0 and b > 0: 53 bits of the quotient of the
\* mantissas, then the rounding on the next bit and the remainder.
DDiv(a, b) ==
  IF a = DZero THEN DZero
  ELSE
    LET ma     == [hi |-> a.hi, lo |-> a.lo]
        mb     == [hi |-> b.hi, lo |-> b.lo]
        ge     == NGe(ma, mb)
        r0     == NSub(IF ge THEN ma ELSE NDbl(ma), mb)
        bits   == QuotientBits([q |-> [hi |-> 0, lo |-> 1], r |-> r0], mb, 52)
        g2     == NDbl(bits.r)
        guard  == NGe(g2, mb)
        rest   == IF guard THEN NSub(g2, mb) ELSE g2
        sticky == rest # [hi |-> 0, lo |-> 0]
        up     == guard /\ (sticky \/ bits.q.lo % 2 = 1)
        q      == IF up THEN NInc(bits.q) ELSE bits.q
        e      == a.e - b.e - (IF ge THEN 52 ELSE 53)
    IN IF q.hi = 2 * Top THEN [hi |-> Top, lo |-> 0, e |-> e + 1]
       ELSE [hi |-> q.hi, lo |-> q.lo, e |-> e]

\* a > b for doubles a, b >= 0.
DGt(a, b) ==
  IF a = DZero THEN FALSE
  ELSE IF b = DZero THEN TRUE
  ELSE \/ a.e > b.e
       \/ a.e = b.e /\ (a.hi > b.hi \/ (a.hi = b.hi /\ a.lo > b.lo))

\* actCodeStats[code].average = totalAmount / count, in doubles.
AveragesDouble(actCodeStats) ==
  [c \in DOMAIN actCodeStats |->
     [actCodeStats[c] EXCEPT !.average = DDiv(DFromInt(actCodeStats[c].totalAmount),
                                              DFromInt(actCodeStats[c].count))]]

\* const avg = actCodeStats[row.actCode]?.average || 0;
averageDouble(actCodeStats, actCode) ==
  IF actCode \in DOMAIN actCodeStats THEN actCodeStats[actCode].average ELSE DZero

\* const deviation = avg === 0 ? 0 : amount / avg;
deviationDouble(amount, avg) ==
  IF avg = DZero THEN DZero ELSE DDiv(DFromInt(amount), avg)

\* isSuspiciousDouble with >= for > in the first clause.
isSuspiciousDoubleFromThreshold(deviation, baCount) ==
  \/ ~DGt(DFromInt(DeviationThreshold), deviation)
  \/ /\ baCount > HighVolumeThreshold
     /\ DGt(deviation, DFromInt(HighVolumeDeviationThreshold))

\* deviation > 3.0 || (baStats[row.BA] > 100 && deviation > 2.0)
isSuspiciousDouble(deviation, baCount) ==
  \/ DGt(deviation, DFromInt(DeviationThreshold))
  \/ /\ baCount > HighVolumeThreshold
     /\ DGt(deviation, DFromInt(HighVolumeDeviationThreshold))

\* The record the second data.forEach pushes for data[index + 1], with its
\* average and its ratio as doubles.
ProcessedRowDouble(row, index, stats) ==
  LET amount    == amountOf(row)
      avg       == averageDouble(stats.actCodeStats, row.actCode)
      deviation == deviationDouble(amount, avg)
      baCount   == IF row.BA \in DOMAIN stats.baStats
                   THEN stats.baStats[row.BA] ELSE 0
  IN [id                    |-> index,
      BA                    |-> row.BA,
      monthly               |-> row.monthly,
      actCode               |-> row.actCode,
      amount                |-> amount,
      baTransactionCount    |-> baCount,
      actCodeAvgAmount      |-> avg,
      deviationFromAvg      |-> deviation,
      isSuspiciousCandidate |-> isSuspiciousDouble(deviation, baCount)]

aggregatesDouble(data) ==
  LET first == FirstPass(data, NoStats, Len(data))
  IN [actCodeStats |-> AveragesDouble(first.actCodeStats),
      baStats      |-> first.baStats]

processFeaturesDouble(data) ==
  LET stats == aggregatesDouble(data)
      kept  == SelectSeq([i \in 1..Len(data) |-> i] \o << >>,
                         LAMBDA i : ~skipped(data[i]))
  IN [k \in 1..Len(kept) |-> ProcessedRowDouble(data[kept[k]], kept[k] - 1, stats)]
     \o << >>

MaxCategory == 7    \* records of the category of a raw sequence
MaxAmount == 17     \* the largest amount of a raw sequence

\* The decimal digits of n >= 0.
RECURSIVE Numeral(_)
Numeral(n) ==
  LET digit == CHOOSE c \in Digits : DigitValue(c) = n % 10
  IN IF n < 10 THEN <<digit>> ELSE Append(Numeral(n \div 10), digit)

\* One category "X": a record of any amount up to MaxAmount and up to
\* MaxCategory - 1 more records of amount 0 or of amount 1; in front, no
\* rows or the rows of another category that make business area "A" a
\* high-volume area.
DoubleInputs ==
  {Repeat(Row("A", "Y", <<"0">>), v)
     \o <<Row("A", "X", Numeral(x))>>
     \o Repeat(Row("A", "X", Numeral(r)), k) :
       v \in {0, HighVolumeThreshold}, x \in 0..MaxAmount, r \in {0, 1},
       k \in 0..(MaxCategory - 1)}

DoubleInit == Idle /\ \E data \in DoubleInputs : call = NewCall(data)

\* processFeatures(data) with its divisions in doubles.
CallProcessFeaturesDouble ==
  /\ call.pc = "data"
  /\ call' = [call EXCEPT !.pc = "processed",
                          !.stats = aggregatesDouble(call.data),
                          !.processed = processFeaturesDouble(call.data)]
  /\ UNCHANGED appVars

DoubleNext == CallProcessFeaturesDouble

DoubleSpec == DoubleInit /\ [][DoubleNext]_vars

---------------------------------------------------------------------------
(* Properties of processFeatures (FnSpec).                                 *)

\* The sum of the integers s[lo..hi].
RECURSIVE SumSeq(_, _, _)
SumSeq(s, lo, hi) ==
  IF lo > hi THEN 0
  ELSE IF lo = hi THEN s[lo]
  ELSE SumSeq(s, lo, (lo + hi) \div 2) + SumSeq(s, (lo + hi) \div 2 + 1, hi)

Featured == call.pc \in {"processed", "selected"}

\* C4: every processed record's id is the zero-based index of its row in
\* the raw sequence (the record carries that row's BA, actCode and period,
\* and the row has both BA and actCode); every such row has its record;
\* ids are strictly increasing, hence unique, and rows that are skipped
\* leave gaps.
C4_IdIsRawIndex ==
  Featured =>
    LET data  == call.data
        p     == call.processed
        valid == {i \in 1..Len(data) : data[i].BA # "" /\ data[i].actCode # ""}
    IN /\ \A k \in 1..Len(p) :
            /\ p[k].id + 1 \in valid
            /\ p[k].BA = data[p[k].id + 1].BA
            /\ p[k].actCode = data[p[k].id + 1].actCode
            /\ p[k].monthly = data[p[k].id + 1].monthly
       /\ \A k \in 1..(Len(p) - 1) : p[k].id < p[k + 1].id
       /\ {p[k].id + 1 : k \in 1..Len(p)} = valid

\* A skipped row precedes a kept one: the kept record's id is not its
\* position among the records.
C4_Witness ==
  /\ Featured
  /\ \E k \in 1..Len(call.processed) : call.processed[k].id > k - 1

\* C5: a category's average is the sum of the amounts of the records of
\* that activity code over their number; every record carries the average
\* of its category, and its deviation ratio is its amount over that
\* average, or 0 when the average is 0.
C5_AverageAndDeviation ==
  Featured =>
    LET p     == call.processed
        stats == call.stats.actCodeStats
        of(c) == {k \in 1..Len(p) : p[k].actCode = c}
        sum(c) == SumSeq([k \in 1..Len(p) |->
                            IF p[k].actCode = c THEN p[k].amount ELSE 0] \o << >>,
                         1, Len(p))
    IN /\ \A c \in DOMAIN stats :
            /\ stats[c].count = Cardinality(of(c))
            /\ stats[c].totalAmount = sum(c)
            /\ stats[c].count > 0
            /\ stats[c].average.n * stats[c].count
                 = stats[c].totalAmount * stats[c].average.d
       /\ \A k \in 1..Len(p) :
            LET avg == p[k].actCodeAvgAmount
                dev == p[k].deviationFromAvg
            IN /\ p[k].actCode \in DOMAIN stats
               /\ avg = stats[p[k].actCode].average
               /\ IF avg.n = 0 THEN dev.n = 0
                  ELSE dev.n * avg.n = p[k].amount * avg.d * dev.d

\* A category whose amounts are not 0 and whose average is 0, next to a
\* record with a ratio that is not 0.
C5_Witness ==
  /\ Featured
  /\ \E k, j \in 1..Len(call.processed) :
       /\ call.processed[k].amount # 0
       /\ call.processed[k].actCodeAvgAmount.n = 0
       /\ call.processed[k].deviationFromAvg.n = 0
       /\ call.processed[j].deviationFromAvg.n # 0

\* C6: a record is a candidate exactly when its deviation ratio is above
\* 3, or its business area's count is above 100 and its ratio is above 2,
\* all three comparisons strict.
C6_SuspicionRule ==
  Featured =>
    \A k \in 1..Len(call.processed) :
      LET r   == call.processed[k]
          dev == r.deviationFromAvg
      IN r.isSuspiciousCandidate <=>
           \/ dev.n > 3 * dev.d
           \/ (r.baTransactionCount > 100 /\ dev.n > 2 * dev.d)

\* The boundaries: a ratio of exactly 3 in a business area of exactly 100
\* rows is not flagged.
C6_Witness ==
  /\ Featured
  /\ \E k \in 1..Len(call.processed) :
       /\ call.processed[k].deviationFromAvg = Frac(3, 1)
       /\ call.processed[k].baTransactionCount = 100
       /\ ~call.processed[k].isSuspiciousCandidate

---------------------------------------------------------------------------
(* Properties of the candidate selector (FnSpec) and of the result merger  *)
(* (MergeSpec).                                                            *)

\* C7: the selector returns min(30, number of flagged records) records,
\* each a flagged record of its input and none twice, in descending order
\* of deviation ratio, and no flagged record it leaves out has a ratio
\* above that of a record it returns.
C7_SelectorTopThirty ==
  call.pc = "selected" =>
    LET t       == call.transactions
        sel     == call.selected
        flagged == {j \in 1..Len(t) : t[j].isSuspiciousCandidate}
        ratio(r) == r.deviationFromAvg
        above(a, b) == ratio(a).n * ratio(b).d > ratio(b).n * ratio(a).d
    IN /\ Len(sel) = IF Cardinality(flagged) < 30 THEN Cardinality(flagged) ELSE 30
       /\ \A k \in 1..Len(sel) : \E j \in flagged : t[j] = sel[k]
       /\ \A k, j \in 1..Len(sel) : k # j => sel[k].id # sel[j].id
       /\ \A k \in 1..(Len(sel) - 1) : ~above(sel[k + 1], sel[k])
       /\ \A j \in flagged :
            (\A k \in 1..Len(sel) : sel[k].id # t[j].id)
               => \A k \in 1..Len(sel) : ~above(t[j], sel[k])

\* More than 30 flagged records with different ratios: 30 are returned,
\* and a record with a lower ratio than a returned one is left out.
C7_Witness ==
  /\ call.pc = "selected"
  /\ Len(call.selected) = 30
  /\ \E j \in 1..Len(call.transactions) :
       /\ call.transactions[j].isSuspiciousCandidate
       /\ \A k \in 1..30 : call.selected[k].id # call.transactions[j].id
       /\ FracGt(call.selected[30].deviationFromAvg,
                 call.transactions[j].deviationFromAvg)
  /\ FracGt(call.selected[1].deviationFromAvg, call.selected[30].deviationFromAvg)

\* C8: the merged records are no more than the results; each carries an
\* id that a processed record and a result share, with that record's
\* attributes and that result's score; every result whose id is known
\* yields one merged record and nothing else does (a record without a
\* result is dropped); the merged records are in descending order of
\* fraudScore.
C8_MergerInnerJoin ==
  call.pc = "merged" =>
    LET m   == call.merged
        res == call.results
        p   == call.transactions
        ids == {p[j].id : j \in 1..Len(p)}
    IN /\ Len(m) <= Len(res)
       /\ \A k \in 1..Len(m) :
            /\ \E j \in 1..Len(p) :
                 /\ p[j].id = m[k].id
                 /\ p[j].amount = m[k].amount
                 /\ p[j].deviationFromAvg = m[k].deviationFromAvg
            /\ \E i \in 1..Len(res) :
                 res[i].id = m[k].id /\ res[i].fraudScore = m[k].fraudScore
       /\ Len(m) = Cardinality({i \in 1..Len(res) : res[i].id \in ids})
       /\ \A k \in 1..(Len(m) - 1) : m[k].fraudScore >= m[k + 1].fraudScore

\* An answer with an unknown id and with two results that find their
\* records and arrive in ascending order of score, for records of which
\* one has no result.
C8_Witness ==
  /\ call.pc = "merged"
  /\ Len(call.results) = 3
  /\ Len(call.merged) = 2
  /\ call.merged[1].fraudScore > call.merged[2].fraudScore
  /\ call.results[1].id = call.merged[2].id
  /\ call.results[1].fraudScore = call.merged[2].fraudScore
  /\ \E j \in 1..Len(call.transactions) :
        \A k \in 1..2 : call.transactions[j].id # call.merged[k].id

---------------------------------------------------------------------------
(* Properties of the component (Spec).                                     *)

\* C1: the completion of a scorer call that was in flight when the user
\* uploaded a new file changes neither analysisResults, nor the error
\* slot, nor the merged records.
C1_SupersededScorerIgnored ==
  [][(/\ Len(pendingAnalysis) > 0
      /\ pendingAnalysis[1].superseded
      /\ Len(pendingAnalysis') < Len(pendingAnalysis))
       => (/\ analysisResults' = analysisResults
           /\ error' = error
           /\ TopRisky' = TopRisky)]_vars

\* C2: the completion of a persistence call that was in flight when the
\* user uploaded a new file or ran the analysis again changes neither
\* saveStatus nor the error slot.
C2_SupersededSaveIgnored ==
  [][(/\ Len(pendingSave) > 0
      /\ pendingSave[1].superseded
      /\ Len(pendingSave') < Len(pendingSave))
       => (saveStatus' = saveStatus /\ error' = error)]_vars

\* C3: at most one scorer call and at most one persistence call are in
\* flight; a call in flight keeps its stage busy, and a busy stage cannot
\* be started.
C3_OneCallPerStage ==
  /\ Len(pendingAnalysis) <= 1
  /\ Len(pendingSave) <= 1
  /\ (Len(pendingAnalysis) = 1 => isAnalyzing)
  /\ (Len(pendingSave) = 1 => isSaving)
  /\ (isAnalyzing => ~ENABLED RunAIAnalysis)
  /\ (isSaving => ~ENABLED HandleSaveToDatabase)

\* Both calls are in flight, for a dataset the user has since replaced
\* and analysed again.
C3_Witness ==
  /\ Len(pendingAnalysis) = 1 /\ pendingAnalysis[1].status = "pending"
  /\ Len(pendingSave) = 1 /\ pendingSave[1].status = "pending"
  /\ pendingSave[1].superseded
  /\ Len(processedData) > 0

\* C9: analysisResults, and so the merged records, never hold more than 30
\* elements.
C9_AtMostThirtyResults ==
  Len(analysisResults) <= 30 /\ Len(TopRisky) <= 30

\* C10: an analysis run on records none of which is flagged selects no
\* candidate, calls the scorer not at all, and ends with the error slot
\* empty.
C10_NoCandidatesNoFailure ==
  [][(isAnalyzing /\ ~isAnalyzing' /\ run.flagged = 0)
       => (/\ run.candidates = 0
           /\ ~run.scorerCalled
           /\ error' = NoError)]_vars

\* A step that starts a stage: an upload, an analysis run or a save.
UploadStarts   == Len(pendingParse') > Len(pendingParse)
AnalysisStarts == ~isAnalyzing /\ isAnalyzing'
SaveStarts     == ~isSaving /\ isSaving'

\* C11: right after an upload, an analysis run or a save is started, the
\* error slot is empty.
C11_NewStageClearsError ==
  [][(UploadStarts \/ AnalysisStarts \/ SaveStarts) => error' = NoError]_vars

\* A file without a usable row: no rows, or only rows without BA or
\* without actCode, or a file that cannot be parsed.
Unusable(file) ==
  \/ file.kind = "unreadable"
  \/ \A k \in 1..Len(file.data) :
       file.data[k].BA = "" \/ file.data[k].actCode = ""

\* C12: when the parse of a file without a usable row ends, the error slot
\* holds a message, processedData and analysisResults are empty and
\* isProcessing is false.
C12_UnusableUploadIsReported ==
  [][\A i \in 1..Len(pendingParse) :
       (pendingParse' = Remove(pendingParse, i) /\ Unusable(pendingParse[i]))
         => (/\ error' # NoError
             /\ processedData' = << >>
             /\ analysisResults' = << >>
             /\ ~isProcessing')]_vars

\* A step that ends a stage: the continuation of runAIAnalysis or of
\* handleSaveToDatabase has run to its finally block.
AnalysisEnds == isAnalyzing /\ ~isAnalyzing'
SaveEnds     == isSaving /\ ~isSaving'

\* What the error slot holds when a run that has its credential ends: no
\* message (results stored), the message for no results, or the message
\* for a scorer call that failed; and when a save that has its client ends:
\* no message, or the message for an insert that failed.
AnalysisOutcomes == {NoError, ErrNoSuspicious, ErrGemini}
SaveOutcomes     == {NoError, ErrSupabase}

\* C13: a run that has candidates but no scorer credential, and a save
\* without the persistence client, end with a message in the error slot
\* that is none of the outcomes of a run or a save that has its credential.
C13_ConfigurationErrorIsDistinct ==
  [][/\ (AnalysisEnds /\ ~env.API_KEY /\ run.candidates > 0)
          => error' \notin AnalysisOutcomes
     /\ (SaveEnds /\ ~env.supabase) => error' \notin SaveOutcomes]_vars

\* C14: when an analysis run is fulfilled with no results (no candidates,
\* or an answer of the scorer without results), the error slot stays
\* empty, and so differs from the slot after a scorer call that failed.
C14_NothingSuspiciousIsNoError ==
  [][(\E i \in 1..Len(pendingAnalysis) : AnalysisFulfilled(i, << >>))
       => (error' = NoError /\ error' # ErrGemini)]_vars

C16_StoredSequencesKeepOrder ==
  \A k \in 1..(Len(processedData) - 1) :
    processedData[k].id < processedData[k + 1].id

\* C18: when a scorer call is rejected, the error slot holds a message
\* afterwards, isAnalyzing is false and analysisResults is what it was;
\* when a persistence call is rejected, the error slot holds a message,
\* isSaving is false and saveStatus is 'error'.
C18_FailuresAreCaught ==
  [][/\ (\/ \E i \in 1..Len(pendingAnalysis) : ScorerRejects(i)
         \/ (AnalysisReturns /\ pendingAnalysis[1].status = "rejected"))
          => (/\ error' # NoError
              /\ ~isAnalyzing'
              /\ analysisResults' = analysisResults)
     /\ (\/ \E i \in 1..Len(pendingSave) : InsertRejects(i)
         \/ SaveReturns)
          => (/\ error' # NoError
              /\ ~isSaving'
              /\ saveStatus' = "error")]_vars

\* A save has failed and then a second analysis run has failed, with the
\* credentials configured: the results of the first run are kept.
C18_Witness ==
  /\ env.API_KEY /\ env.supabase
  /\ error = ErrGemini
  /\ saveStatus = "error"
  /\ ~isAnalyzing /\ ~isSaving
  /\ Len(analysisResults) > 0

\* C19: a stage that waits for the scorer or for the persistence gateway
\* leaves its busy state in the end, whether or not the answer comes.
C19_NoResponseIsFailure ==
  /\ isAnalyzing ~> (~isAnalyzing)
  /\ isSaving ~> (~isSaving)

\* C20: every stage that was started becomes idle again when its
\* collaborator answers, whatever else the user does meanwhile.
C20_StagesReturnToIdle ==
  /\ isProcessing ~> (~isProcessing)
  /\ isAnalyzing ~> (~isAnalyzing)
  /\ isSaving ~> (~isSaving)

\* The three stages are busy at once.
C20_Witness ==
  /\ isProcessing /\ isAnalyzing /\ isSaving
  /\ pendingAnalysis[1].status = "pending"
  /\ pendingSave[1].status = "pending"

---------------------------------------------------------------------------
(* The two passes of processFeatures (FnSpec).                             *)

\* The sum of the counts of the categories in codes.
RECURSIVE SumOfCounts(_, _)
SumOfCounts(stats, codes) ==
  IF codes = {} THEN 0
  ELSE LET c == CHOOSE x \in codes : TRUE
       IN stats[c].count + SumOfCounts(stats, codes \ {c})

\* C17: the rows counted by the first pass are the rows the second pass
\* turns into records: the category counts sum to the number of records,
\* a business area's count is the number of records of that area, every
\* record carries that count (at least 1), and no aggregate has a key
\* from a row without BA or without actCode.
C17_PassesSkipAlike ==
  Featured =>
    LET p     == call.processed
        stats == call.stats
        inBA(b) == Cardinality({j \in 1..Len(p) : p[j].BA = b})
    IN /\ SumOfCounts(stats.actCodeStats, DOMAIN stats.actCodeStats) = Len(p)
       /\ \A b \in DOMAIN stats.baStats : stats.baStats[b] = inBA(b) /\ b # ""
       /\ \A c \in DOMAIN stats.actCodeStats : c # ""
       /\ \A k \in 1..Len(p) :
            /\ p[k].baTransactionCount = inBA(p[k].BA)
            /\ p[k].baTransactionCount >= 1

\* A raw sequence with a row without BA, a row without actCode and two
\* rows of one business area in different categories.
C17_Witness ==
  /\ Featured
  /\ \E i, j \in 1..Len(call.data) :
       call.data[i].BA = "" /\ call.data[j].actCode = ""
  /\ \E k, j \in 1..Len(call.processed) :
       /\ call.processed[k].BA = call.processed[j].BA
       /\ call.processed[k].actCode # call.processed[j].actCode

---------------------------------------------------------------------------
(* Saving the same records twice, and where the saved records come from
   (Spec). *)

\* C21: once a save has succeeded, the save stays marked as done and the
\* Save button stays disabled for as long as the scorer's results and the
\* processed records they are joined to are what they were: no step that
\* leaves them unchanged makes another save possible.
C21_SavedAtMostOnce ==
  [][(/\ saveStatus = "success"
      /\ Len(TopRisky) > 0
      /\ processedData' = processedData
      /\ analysisResults' = analysisResults)
       => (saveStatus' = "success" /\ ~SaveEnabled')]_vars

\* C22: every record to save is a record the feature engine marked as a
\* candidate.
C22_FinalRecordsWereCandidates ==
  \A k \in 1..Len(TopRisky) : TopRisky[k].isSuspiciousCandidate

---------------------------------------------------------------------------
(* The ratio and the size of the category (DoubleSpec: every amount is     *)
(* non-negative).                                                          *)

\* The number of records of the category of record p.
CategoryCount(p) == call.stats.actCodeStats[p.actCode].count

\* C23, as stated: every record's ratio is at most the number of records
\* of its category; a record of a category of at most 3 records has no
\* ratio above 3, and a record of a category of at most 2 records is no
\* candidate.
C23_RatioAtMostCount ==
  Featured =>
    \A k \in 1..Len(call.processed) :
      LET p == call.processed[k]
      IN /\ ~DGt(p.deviationFromAvg, DFromInt(CategoryCount(p)))
         /\ CategoryCount(p) <= 3
              => ~DGt(p.deviationFromAvg, DFromInt(DeviationThreshold))
         /\ CategoryCount(p) <= 2 => ~p.isSuspiciousCandidate

\* C23, amended: the ratio of a record is at most the number of records of
\* its category when that number is at most 6; a record of a category of
\* at most 3 records is a candidate only by the high-volume clause, and a
\* record of a category of at most 2 records is no candidate.
C23_SmallCategoryRatio ==
  Featured =>
    \A k \in 1..Len(call.processed) :
      LET p == call.processed[k]
      IN /\ CategoryCount(p) <= 6
              => ~DGt(p.deviationFromAvg, DFromInt(CategoryCount(p)))
         /\ (CategoryCount(p) <= 3 /\ p.baTransactionCount <= HighVolumeThreshold)
              => ~p.isSuspiciousCandidate
         /\ CategoryCount(p) <= 2 => ~p.isSuspiciousCandidate

\* A category of 3 records of which one holds the whole total: its ratio
\* is exactly 3 and it is no candidate.
C23_Witness ==
  /\ Featured
  /\ \E k \in 1..Len(call.processed) :
       LET p == call.processed[k]
       IN /\ CategoryCount(p) = 3
          /\ p.amount > 0
          /\ p.deviationFromAvg = DFromInt(3)
          /\ ~p.isSuspiciousCandidate

===========================================================================
